---- MODULE Spec2Model ----
(***************************************************************************)
(* Minesweeper board of src/src/ui/board.tsx: the reducer over BoardState, *)
(* the mine placement loop, the reveal cascade, and the Board / GridCell   *)
(* glue that dispatches events to the reducer.                             *)
(***************************************************************************)
EXTENDS Integers, FiniteSets, Sequences, TLC

VARIABLES state, board, pc, loc, effect

vars == <<state, board, pc, loc, effect>>

\* ------------------------------------------------------------------ bounds
\* Boards have at most MaxCells cells.
MaxCells == 4
\* At most MaxMarked cells carry a flag or a question mark at a time.
MaxMarked == 1
\* the grid of the rounds played on one board of two dimensions
GridRows == 2
GridColumns == 3
GridMines == 2

\* ------------------------------------------------------------ board inputs
Null == -1

Boards ==
    { b \in [rows : 1..MaxCells, columns : 1..MaxCells, mines : 0..MaxCells] :
        /\ b.rows * b.columns <= MaxCells
        /\ b.mines <= b.rows * b.columns }

getCellCount(b) == b.columns * b.rows

\* --------------------------------------------------------------- the Cell
\* Cell (./cell) is not part of the sources at hand; it is modelled from the
\* data model of the specification: index, adjacentMineCount, status and a
\* positional matrix of the 8 neighbours (N, NE, E, SE, S, SW, W, NW).
Directions ==
    << <<-1, 0>>, <<-1, 1>>, <<0, 1>>, <<1, 1>>,
       <<1, 0>>, <<1, -1>>, <<0, -1>>, <<-1, -1>> >>

adjacentIndexMatrix(index, b) ==
    LET row == index \div b.columns
        col == index % b.columns
    IN  [d \in 1..8 |->
            LET r == row + Directions[d][1]
                c == col + Directions[d][2]
            IN  IF r >= 0 /\ r < b.rows /\ c >= 0 /\ c < b.columns
                THEN r * b.columns + c
                ELSE Null]

\* new Cell({index, board, mines, status})
NewCell(index, b, mines, status) ==
    LET m == adjacentIndexMatrix(index, b)
    IN  [index |-> index,
         adjacentMineCount |->
            Cardinality({d \in 1..8 : m[d] # Null /\ m[d] \in mines}),
         status |-> status]

\* new Cell(cell, {status}): a copy of cell with the status replaced
CopyCell(cell, status) == [cell EXCEPT !.status = status]

\* ------------------------------------------------------ helpers of board.tsx
createCells(b, mines) ==
    [index \in 0..(getCellCount(b) - 1) |-> NewCell(index, b, mines, "hidden")]

resetCells(b) == createCells(b, {})

initCells(b, mines) == createCells(b, mines)

addMinesToCells(cells, b, mines) ==
    [index \in 0..(getCellCount(b) - 1) |->
        NewCell(index, b, mines,
                IF index \in DOMAIN cells THEN cells[index].status ELSE "hidden")]

flagCell(cell) == CopyCell(cell, "flagged")

\* toggleCellFlags going from question back to flagged
toggleCellFlagsTwoStates(cell) ==
    CopyCell(cell, IF cell.status = "flagged" THEN "question" ELSE "flagged")

toggleCellFlags(cell) ==
    CopyCell(cell,
             IF cell.status = "flagged" THEN "question"
             ELSE IF cell.status = "question" THEN "hidden"
             ELSE "flagged")

getMaxMines(cells) == Cardinality(DOMAIN cells) - 1

getTotalRevealedCells(cells) ==
    Cardinality({k \in DOMAIN cells : cells[k].status = "revealed"})

\* isComplete one cell early
isCompleteOffByOne(cells, mines) ==
    Cardinality(DOMAIN cells) - Cardinality(mines) - 1 = getTotalRevealedCells(cells)

isComplete(cells, mines) ==
    Cardinality(DOMAIN cells) - Cardinality(mines) = getTotalRevealedCells(cells)

\* explodeCells marking the clicked mine alone
explodeCellsClickedOnly(cellIndex, cells, mines) ==
    [cells EXCEPT ![cellIndex] = CopyCell(cells[cellIndex], "exploded")]

\* The cell a mine explosion writes at every mine position: a copy of the
\* clicked cell.
explodeCells(cellIndex, cells, mines) ==
    [k \in DOMAIN cells |->
        IF k \in mines
        THEN CopyCell(cells[cellIndex],
                      IF k = cellIndex THEN "exploded" ELSE "revealed")
        ELSE cells[k]]

\* type GameState
GameState == {"idle", "active", "won", "lost"}

\* alreadyRevealed forgetting the exploded cell
alreadyRevealedNotExploded(cell) == cell.status = "revealed"

\* selectCell: the test on the status of the cell that ends it at once
alreadyRevealed(cell) == cell.status = "exploded" \/ cell.status = "revealed"

RECURSIVE selectCell(_, _, _, _, _)
RECURSIVE selectAdjacent(_, _, _, _, _)

\* selectCell: <<gameState, cells>>
\* selectAdjacent going on to the neighbours without adjacent mines only
selectAdjacentZeroOnly(adjacentCells, acc, mines, b, n) ==
    IF n > Len(adjacentCells)
    THEN acc
    ELSE LET next == IF acc[2][adjacentCells[n]].adjacentMineCount = 0
                     THEN selectCell(adjacentCells[n], acc[2], mines, b, acc[1])
                     ELSE acc
         IN  IF next[1] \in GameState
             THEN selectAdjacent(adjacentCells, next, mines, b, n + 1)
             ELSE next

selectCell(cellIndex, cells, mines, b, startingState) ==
    LET cell == cells[cellIndex]
    IN  IF alreadyRevealed(cell)
        THEN <<startingState, cells>>
        ELSE IF cellIndex \in mines
        THEN <<"lost", explodeCells(cellIndex, cells, mines)>>
        ELSE LET cellsCopy == [cells EXCEPT ![cellIndex] = CopyCell(cell, "revealed")]
                 gameState == IF isComplete(cellsCopy, mines) THEN "won" ELSE "active"
                 matrix == adjacentIndexMatrix(cell.index, b)
                 adjacentCells == SelectSeq(matrix, LAMBDA idx : idx # Null)
             IN  IF cell.adjacentMineCount = 0
                 THEN selectAdjacent(adjacentCells, <<gameState, cellsCopy>>, mines, b, 1)
                 ELSE <<gameState, cellsCopy>>

\* the loop of selectCell over the neighbours of a cell without adjacent mines
selectAdjacent(adjacentCells, acc, mines, b, n) ==
    IF n > Len(adjacentCells)
    THEN acc
    ELSE LET next == IF acc[2][adjacentCells[n]].adjacentMineCount >= 0
                     THEN selectCell(adjacentCells[n], acc[2], mines, b, acc[1])
                     ELSE acc
         IN  \* [gameState, cellsCopy] = selectCell(...) is assigned before
             \* the loop goes on
             IF next[1] \in GameState
             THEN selectAdjacent(adjacentCells, next, mines, b, n + 1)
             ELSE next

\* ------------------------------------------------------------- the reducer
\* Events carry a type, a cell index (REVEAL_CELL, REVEAL_ADJACENT_CELLS,
\* MARK_CELL) and the board (all but MARK_CELL).
Event(type, index, b) == [type |-> type, index |-> index, board |-> b]

\* if (event.type === "RESET")
reduceReset(st, event) ==
    [st EXCEPT !.gameState = "idle",
               !.cells = resetCells(event.board),
               !.initialized = FALSE]

\* case "idle" / case "REVEAL_CELL", with the mines initMines returned
idleRevealCell(st, event, mines) ==
    LET r == selectCell(event.index, initCells(event.board, mines), mines,
                        event.board, st.gameState)
    IN  [st EXCEPT !.gameState = r[1], !.cells = r[2],
                   !.mines = mines, !.initialized = TRUE]

\* case "idle" / case "MARK_CELL"
idleMarkCell(st, event) ==
    [st EXCEPT !.gameState = "active",
               !.cells = [st.cells EXCEPT ![event.index] = toggleCellFlags(@)]]

\* activeRevealCell placing the mines on every reveal
activeRevealCellAlwaysPlaces(st, event, rnd) ==
    LET currentCells == addMinesToCells(st.cells, event.board, rnd)
        r == selectCell(event.index, currentCells, rnd, event.board, st.gameState)
    IN  [st EXCEPT !.gameState = r[1], !.cells = r[2],
                   !.mines = rnd, !.initialized = TRUE]

\* case "active" / case "REVEAL_CELL"; rnd is what initMines returns when
\* the board is not initialized yet
activeRevealCell(st, event, rnd) ==
    LET mines == IF ~st.initialized THEN rnd ELSE st.mines
        currentCells == IF ~st.initialized
                        THEN addMinesToCells(st.cells, event.board, mines)
                        ELSE st.cells
        r == selectCell(event.index, currentCells, mines, event.board, st.gameState)
    IN  [st EXCEPT !.gameState = r[1], !.cells = r[2],
                   !.mines = mines, !.initialized = TRUE]

RECURSIVE revealEach(_, _, _, _, _)
\* for (let cell of cellsToReveal) { ... selectCell ... }
revealEach(cellsToReveal, acc, mines, b, n) ==
    IF n > Len(cellsToReveal)
    THEN acc
    ELSE revealEach(cellsToReveal,
                    selectCell(cellsToReveal[n], acc[2], mines, b, acc[1]),
                    mines, b, n + 1)

\* case "active" / case "REVEAL_ADJACENT_CELLS": the neighbours of the cell,
\* in the order of its adjacentIndexMatrix
chordAdjacent(st, event) ==
    SelectSeq(adjacentIndexMatrix(st.cells[event.index].index, event.board),
              LAMBDA idx : idx # Null)

\* markCount after the loop over the neighbours
chordMarkCount(st, event) ==
    LET adjacent == chordAdjacent(st, event)
    IN  Cardinality({n \in 1..Len(adjacent) :
                        st.cells[adjacent[n]].status = "flagged"})

\* cellsToReveal after the loop over the neighbours
chordCellsToReveal(st, event) ==
    SelectSeq(chordAdjacent(st, event),
              LAMBDA idx : st.cells[idx].status = "hidden")

\* activeRevealAdjacentCells without the comparison of markCount
activeRevealAdjacentCellsNoThreshold(st, event) ==
    LET cell == st.cells[event.index]
        r == revealEach(chordCellsToReveal(st, event),
                        <<st.gameState, st.cells>>, st.mines, event.board, 1)
    IN  IF cell.adjacentMineCount <= 0
        THEN st
        ELSE [st EXCEPT !.gameState = r[1], !.cells = r[2]]

activeRevealAdjacentCells(st, event) ==
    LET cell == st.cells[event.index]
        r == revealEach(chordCellsToReveal(st, event),
                        <<st.gameState, st.cells>>, st.mines, event.board, 1)
    IN  IF cell.adjacentMineCount <= 0
        THEN st
        ELSE IF chordMarkCount(st, event) >= cell.adjacentMineCount
        THEN [st EXCEPT !.gameState = r[1], !.cells = r[2]]
        ELSE st

\* case "active" / case "MARK_CELL"
activeMarkCell(st, event) ==
    [st EXCEPT !.cells = [st.cells EXCEPT ![event.index] = toggleCellFlags(@)]]

\* case "won" / case "MARK_REMAINING_MINES"
wonMarkRemainingMines(st, event) ==
    LET cellsToMark == {index \in DOMAIN st.cells :
                            st.cells[index].status \in {"hidden", "question"}}
    IN  IF Cardinality(cellsToMark) < 1
        THEN st
        ELSE [st EXCEPT !.cells =
                [index \in DOMAIN st.cells |->
                    IF index \in cellsToMark
                    THEN flagCell(st.cells[index])
                    ELSE st.cells[index]]]

\* The switch on state.gameState. No case ends in a break, so an event that
\* a case does not return on falls into the next case.
caseWon(st, event) ==
    IF event.type = "MARK_REMAINING_MINES"
    THEN wonMarkRemainingMines(st, event)
    ELSE st

caseActive(st, event, rnd) ==
    IF event.type = "REVEAL_CELL" THEN activeRevealCell(st, event, rnd)
    ELSE IF event.type = "REVEAL_ADJACENT_CELLS" THEN activeRevealAdjacentCells(st, event)
    ELSE IF event.type = "MARK_CELL" THEN activeMarkCell(st, event)
    ELSE caseWon(st, event)

caseIdle(st, event, rnd) ==
    IF event.type = "REVEAL_CELL" THEN idleRevealCell(st, event, rnd)
    ELSE IF event.type = "MARK_CELL" THEN idleMarkCell(st, event)
    ELSE caseActive(st, event, rnd)

\* reducer with phase lost falling into the case of phase won
reducerLostAsWon(st, event, rnd) ==
    IF event.type = "RESET" THEN reduceReset(st, event)
    ELSE IF st.gameState = "idle" THEN caseIdle(st, event, rnd)
    ELSE IF st.gameState = "active" THEN caseActive(st, event, rnd)
    ELSE caseWon(st, event)

\* reducer(state, event); rnd is the mine list initMines returns in the
\* branches that call it
reducer(st, event, rnd) ==
    IF event.type = "RESET" THEN reduceReset(st, event)
    ELSE IF st.gameState = "idle" THEN caseIdle(st, event, rnd)
    ELSE IF st.gameState = "active" THEN caseActive(st, event, rnd)
    ELSE IF st.gameState = "won" THEN caseWon(st, event)
    ELSE st

\* The branches of the reducer that call initMines.
callsInitMines(st, event) ==
    /\ event.type = "REVEAL_CELL"
    /\ \/ st.gameState = "idle"
       \/ st.gameState = "active" /\ ~st.initialized

\* -------------------------------------------------------------- initMines
\* Math.floor(Math.random() * maxMines)
randomCellIndexes(maxMines) == IF maxMines <= 0 THEN {0} ELSE 0..(maxMines - 1)

\* acceptsIndex without the comparison with initialCellIndex
acceptsIndexAnyCell(mines, initialCellIndex, randomCellIndex) ==
    randomCellIndex \notin mines

\* the test inside the do-while loop
acceptsIndex(mines, initialCellIndex, randomCellIndex) ==
    /\ randomCellIndex \notin mines
    /\ initialCellIndex # randomCellIndex

\* One pass of the do-while loop: l holds mines and the length of
\* minesToAssign (pop on an empty array leaves it empty).
initMinesPass(l, randomCellIndex) ==
    IF acceptsIndex(l.mines, l.event.index, randomCellIndex)
    THEN [l EXCEPT !.mines = @ \cup {randomCellIndex},
                   !.minesToAssign = IF @ > 0 THEN @ - 1 ELSE 0]
    ELSE l

\* Whether the do-while loop of initMines can end for this event: it ends
\* after one pass when totalMines is 0, and otherwise once totalMines of the
\* indices it can draw have been accepted.
initMinesReturns(event, cells) ==
    \/ event.board.mines = 0
    \/ Cardinality(randomCellIndexes(getMaxMines(cells)) \ {event.index})
           >= event.board.mines

\* if (!cell): the cell read at an index outside the array is undefined
invalidCell(cells, index) == index \notin DOMAIN cells

\* Whether reducer(state, event) throws instead of returning, case by case;
\* the state useReducer holds is then the one before the event.
throwsWon(st, event) == FALSE

\* REVEAL_CELL: selectCell throws on a missing cell; REVEAL_ADJACENT_CELLS:
\* cell.adjacentMineCount of a missing cell is a TypeError; MARK_CELL: throws
\* on a missing cell
throwsActive(st, event) ==
    IF event.type = "REVEAL_CELL"
    THEN IF ~st.initialized
         THEN /\ initMinesReturns(event, st.cells)
              /\ invalidCell(resetCells(event.board), event.index)
         ELSE invalidCell(st.cells, event.index)
    ELSE IF event.type = "REVEAL_ADJACENT_CELLS"
    THEN invalidCell(st.cells, event.index)
    ELSE IF event.type = "MARK_CELL"
    THEN invalidCell(st.cells, event.index)
    ELSE throwsWon(st, event)

throwsIdle(st, event) ==
    IF event.type = "REVEAL_CELL"
    THEN /\ initMinesReturns(event, st.cells)
         /\ invalidCell(resetCells(event.board), event.index)
    ELSE IF event.type = "MARK_CELL"
    THEN invalidCell(st.cells, event.index)
    ELSE throwsActive(st, event)

throws(st, event) ==
    IF event.type = "RESET" THEN FALSE
    ELSE IF st.gameState = "idle" THEN throwsIdle(st, event)
    ELSE IF st.gameState = "active" THEN throwsActive(st, event)
    ELSE IF st.gameState = "won" THEN throwsWon(st, event)
    ELSE FALSE

\* ------------------------------------------------------------- the program
NoLoc == [event |-> Event("NONE", Null, [rows |-> 0, columns |-> 0, mines |-> 0]),
          mines |-> {}, minesToAssign |-> 0, maxMines |-> 0]

\* initialState, with the cells getinitialState adds
initialState(b) ==
    [gameState |-> "idle", cells |-> createCells(b, {}),
     mines |-> {}, initialized |-> FALSE]

Init ==
    /\ board \in Boards
    /\ state = initialState(board)
    /\ pc = "ready"
    /\ loc = NoLoc
    /\ effect = FALSE

\* useEffect(..., [gameState, board]): a render whose gameState changed to
\* "won" sends MARK_REMAINING_MINES before the next input event.
effectAfter(old, new) == new.gameState = "won" /\ old.gameState # "won"

\* GridCell: gameIsOver
gameIsOver == state.gameState = "won" \/ state.gameState = "lost"

Ready == pc = "ready" /\ ~effect

Positions == DOMAIN state.cells

marked == {k \in Positions : state.cells[k].status \in {"flagged", "question"}}

\* send(event) for an event whose reduction is deterministic
Dispatch(event) ==
    /\ state' = reducer(state, event, {})
    /\ effect' = effectAfter(state, state')
    /\ UNCHANGED <<board, pc, loc>>

\* onClick of the cell drawn at position k: handleSingleCellSelect, in the
\* branches that do not place mines
RevealCell(k) ==
    LET event == Event("REVEAL_CELL", state.cells[k].index, board)
    IN  /\ Ready /\ ~gameIsOver
        /\ ~callsInitMines(state, event)
        /\ Dispatch(event)

\* onClick of the cell at position k when the reducer calls initMines: the
\* call of initMines is entered
RevealCellInitMines(k) ==
    LET event == Event("REVEAL_CELL", state.cells[k].index, board)
    IN  /\ Ready /\ ~gameIsOver
        /\ callsInitMines(state, event)
        /\ pc' = "initMines"
        /\ loc' = [event |-> event, mines |-> {},
                   minesToAssign |-> event.board.mines,
                   maxMines |-> getMaxMines(state.cells)]
        /\ UNCHANGED <<state, board, effect>>

\* One pass of the do-while loop of initMines with the random index r; when
\* the loop ends the reducer goes on with the mines and returns.
InitMinesLoop(r) ==
    /\ pc = "initMines"
    /\ r \in randomCellIndexes(loc.maxMines)
    /\ LET l == initMinesPass(loc, r)
       IN  IF l.minesToAssign > 0
           THEN /\ loc' = l
                /\ UNCHANGED <<state, board, pc, effect>>
           ELSE /\ state' = reducer(state, loc.event, l.mines)
                /\ effect' = effectAfter(state, state')
                /\ pc' = "ready"
                /\ loc' = NoLoc
                /\ UNCHANGED board

\* onPointerDown (button 2) on a revealed cell: handleAdjacentCellsSelect
RevealAdjacentCells(k) ==
    /\ Ready /\ ~gameIsOver
    /\ state.cells[k].status = "revealed"
    /\ Dispatch(Event("REVEAL_ADJACENT_CELLS", state.cells[k].index, board))

\* MarkCell without the switch on the status of the cell
MarkCellAnyStatus(k) ==
    /\ Ready /\ ~gameIsOver
    /\ k \in marked \/ Cardinality(marked) < MaxMarked
    /\ Dispatch(Event("MARK_CELL", state.cells[k].index, board))

\* onPointerDown (button 2) on a hidden, flagged or question cell: handleMark
MarkCell(k) ==
    /\ Ready /\ ~gameIsOver
    /\ state.cells[k].status \in {"hidden", "flagged", "question"}
    /\ k \in marked \/ Cardinality(marked) < MaxMarked
    /\ Dispatch(Event("MARK_CELL", state.cells[k].index, board))

\* the effect of Board that sends MARK_REMAINING_MINES
MarkRemainingMines ==
    /\ pc = "ready" /\ effect
    /\ state' = reducer(state, Event("MARK_REMAINING_MINES", Null, board), {})
    /\ effect' = FALSE
    /\ UNCHANGED <<board, pc, loc>>

\* the reset button: reset() with the current board
Reset ==
    /\ Ready
    /\ state' = reducer(state, Event("RESET", Null, board), {})
    /\ effect' = FALSE
    /\ UNCHANGED <<board, pc, loc>>

\* The board prop changes to b: the effects of the new render run in order,
\* first the one that sends MARK_REMAINING_MINES when the game is won, then
\* the one that calls reset().
ChangeBoard(b) ==
    /\ Ready
    /\ b # board
    /\ LET marked1 == IF state.gameState = "won"
                      THEN reducer(state, Event("MARK_REMAINING_MINES", Null, b), {})
                      ELSE state
       IN  state' = reducer(marked1, Event("RESET", Null, b), {})
    /\ board' = b
    /\ effect' = FALSE
    /\ UNCHANGED <<pc, loc>>

Next ==
    \/ \E k \in Positions : RevealCell(k)
    \/ \E k \in Positions : RevealCellInitMines(k)
    \/ \E r \in 0..MaxCells : InitMinesLoop(r)
    \/ \E k \in Positions : RevealAdjacentCells(k)
    \/ \E k \in Positions : MarkCell(k)
    \/ MarkRemainingMines
    \/ Reset
    \/ \E b \in Boards : ChangeBoard(b)

Spec == Init /\ [][Next]_vars

\* Rounds on one board of GridRows x GridColumns cells: the mines are placed
\* by the first reveal and the cells are revealed one click after the other.
GridBoards ==
    [rows : {GridRows}, columns : {GridColumns}, mines : 0..GridMines]

InitGrid ==
    /\ board \in GridBoards
    /\ state = initialState(board)
    /\ pc = "ready"
    /\ loc = NoLoc
    /\ effect = FALSE

NextGrid ==
    \/ \E k \in Positions : RevealCell(k)
    \/ \E k \in Positions : RevealCellInitMines(k)
    \/ \E r \in 0..(GridRows * GridColumns) : InitMinesLoop(r)
    \/ MarkRemainingMines

GridSpec == InitGrid /\ [][NextGrid]_vars

\* ------------------------------------------------------------- properties
InvalidBoard(b) == b.mines > getCellCount(b) - 1

statusOf(st, k) == st.cells[k].status

RevealEvent(i) == Event("REVEAL_CELL", i, board)
ChordEvent(i) == Event("REVEAL_ADJACENT_CELLS", i, board)
MarkEvent(i) == Event("MARK_CELL", i, board)
MarkRemainingEvent == Event("MARK_REMAINING_MINES", Null, board)

\* every index a command can carry, in range or not
AnyIndex == (-1)..MaxCells

PlayerEvents ==
    {RevealEvent(i) : i \in AnyIndex} \cup {ChordEvent(i) : i \in AnyIndex}
        \cup {MarkEvent(i) : i \in AnyIndex}

\* C1: after the first Reveal(i) of a round, the one that places the mines
\* (from phase idle, or from phase active after flags only), i is not in the
\* mine set and cell i is not exploded.
C1_FirstRevealIsSafe ==
    [][(pc = "initMines" /\ pc' = "ready")
        => /\ loc.event.index \notin state'.mines
           /\ state'.initialized
           /\ statusOf(state', loc.event.index) # "exploded"]_vars

\* a first reveal has placed the mines and the round goes on, a flag set
C1_Witness ==
    /\ pc = "ready" /\ state.initialized /\ state.gameState = "active"
    /\ state.mines # {}
    /\ \E k \in Positions : statusOf(state, k) = "revealed" /\ k \notin state.mines
    /\ \E k \in Positions : statusOf(state, k) = "flagged"

\* C2: once mines are placed, the mine set has exactly board.mines members,
\* for every board with 0 <= mines <= cellCount - 1.
C2_MineCountExact ==
    (state.initialized /\ ~InvalidBoard(board))
        => Cardinality(state.mines) = board.mines

\* Whether a pass of the loop can end it (minesToAssign is empty after the
\* pass) or shorten minesToAssign, for some index Math.random can draw.
initMinesCanProceed(l) ==
    \E r \in randomCellIndexes(l.maxMines) :
        LET p == initMinesPass(l, r)
        IN  p.minesToAssign = 0 \/ p.minesToAssign < l.minesToAssign

\* C3: for every board with 0 <= mines <= cellCount - 1, a mine placement
\* that has started ends: as long as the loop runs, some index Math.random
\* can draw ends the loop or brings it nearer to its end.
C3_PlacementTerminates ==
    (pc = "initMines" /\ ~InvalidBoard(board)) => initMinesCanProceed(loc)

\* C4: a board with more than cellCount - 1 mines is refused with a
\* configuration error at the latest when mine placement is requested: the
\* placement loop is never entered for such a board.
C4_InvalidBoardRefused ==
    InvalidBoard(board) => pc # "initMines"

\* C5: Reveal(i) in phase active on a mine i that is not yet revealed or
\* exploded gives phase lost, cell i exploded, every other mine revealed, and
\* the status of every cell that is no mine unchanged.
C5_RevealMineLoses ==
    \A i \in Positions :
        ( /\ state.gameState = "active" /\ state.initialized
          /\ i \in state.mines
          /\ statusOf(state, i) \notin {"revealed", "exploded"} )
        => LET next == reducer(state, RevealEvent(i), {})
           IN  /\ next.gameState = "lost"
               /\ statusOf(next, i) = "exploded"
               /\ \A k \in state.mines \ {i} : statusOf(next, k) = "revealed"
               /\ \A k \in Positions \ state.mines :
                       statusOf(next, k) = statusOf(state, k)
               /\ next.mines = state.mines

\* a lost round: one mine exploded, another one revealed, a flag left on a
\* cell that is no mine
C5_Witness ==
    /\ state.gameState = "lost"
    /\ \E i \in state.mines : statusOf(state, i) = "exploded"
    /\ \E j \in state.mines : statusOf(state, j) = "revealed"
    /\ \E k \in Positions \ state.mines : statusOf(state, k) = "flagged"

\* C6: in phase lost no command but Reset changes the snapshot, and in phase
\* won no player command (Reveal, RevealAdjacent, ToggleFlag) changes it.
C6_WonLostTerminal ==
    /\ state.gameState = "lost"
        => \A e \in PlayerEvents \cup {MarkRemainingEvent} :
               reducer(state, e, {}) = state
    /\ state.gameState = "won"
        => \A e \in PlayerEvents : reducer(state, e, {}) = state

\* a lost round with cells still hidden
C6_Witness ==
    /\ state.gameState = "lost"
    /\ \E k \in Positions : statusOf(state, k) = "hidden"
    /\ \E k \in Positions : statusOf(state, k) = "revealed"

firstMine(list, mines) ==
    IF \E n \in 1..Len(list) : list[n] \in mines
    THEN CHOOSE n \in 1..Len(list) :
            /\ list[n] \in mines
            /\ \A m \in 1..(n - 1) : list[m] \notin mines
    ELSE 0

\* C8: a RevealAdjacent(i) that reveals a mine ends in phase lost, and the
\* neighbours listed after that mine are not revealed.
C8_ChordStopsAtMine ==
    \A i \in Positions :
        LET e == ChordEvent(i)
            list == chordCellsToReveal(state, e)
            n == firstMine(list, state.mines)
            upToMine == revealEach(SubSeq(list, 1, n),
                                   <<state.gameState, state.cells>>,
                                   state.mines, board, 1)
        IN  ( /\ state.gameState = "active" /\ state.initialized
              /\ state.cells[i].adjacentMineCount > 0
              /\ chordMarkCount(state, e) >= state.cells[i].adjacentMineCount
              /\ n > 0 /\ upToMine[1] = "lost" )
            => LET next == reducer(state, e, {})
               IN  next.gameState = "lost" /\ next.cells = upToMine[2]

\* C9: Reset(board) in any state gives the snapshot a round starts with:
\* phase idle, all cells hidden with adjacentMineCount 0, no mines placed and
\* an empty mine set.
C9_ResetIsFresh ==
    \A b \in Boards :
        reducer(state, Event("RESET", Null, b), {}) = initialState(b)

\* C10: once MARK_REMAINING_MINES has been applied in phase won, every cell
\* is revealed or flagged, the phase is won, and applying it again changes
\* nothing.
C10_AllMarkedWhenWon ==
    (state.gameState = "won" /\ ~effect)
        => /\ \A k \in Positions : statusOf(state, k) \in {"revealed", "flagged"}
           /\ reducer(state, MarkRemainingEvent, {}) = state


\* the mine sets initMines could hand to the reducer, told apart from state.mines
OtherPlacements == {{}, Positions}

\* every command but Reset that the reducer answers without throwing
Commands(st) == {e \in PlayerEvents \cup {MarkRemainingEvent} : ~throws(st, e)}

\* C13: once the mines of a round are placed (initialized), no command other
\* than Reset changes the mine set, and no command calls initMines again.
C13_MinesFixedInRound ==
    state.initialized
        => \A e \in Commands(state) :
               /\ ~callsInitMines(state, e)
               /\ \A rnd \in OtherPlacements :
                      LET next == reducer(state, e, rnd)
                      IN  next.mines = state.mines /\ next.initialized

\* a round with mines placed, cells revealed and a safe cell left to reveal
C13_Witness ==
    /\ state.initialized /\ state.gameState = "active" /\ state.mines # {}
    /\ \E k \in Positions : statusOf(state, k) = "revealed"
    /\ \E k \in Positions : statusOf(state, k) = "hidden" /\ k \notin state.mines

\* C15: Reveal(i) on a cell that is already revealed or exploded returns the
\* current snapshot (phase, cells, mine set, initialized), in every phase.
C15_RevealIdempotent ==
    \A i \in Positions :
        statusOf(state, i) \in {"revealed", "exploded"}
            => \A rnd \in OtherPlacements :
                   reducer(state, RevealEvent(i), rnd) = state

\* a running round with a revealed cell
C15_Witness ==
    /\ state.gameState = "active"
    /\ \E k \in Positions : statusOf(state, k) = "revealed"

\* C16: from a hidden cell i in phase idle or active, three ToggleFlag(i) give
\* cell i the statuses flagged, question, hidden; they change no other cell,
\* place no mines, and the phase after the first one is active.
C16_FlagCycleCloses ==
    state.gameState \in {"idle", "active"}
        => \A i \in Positions :
               statusOf(state, i) = "hidden"
                   => LET s1 == reducer(state, MarkEvent(i), Positions)
                          s2 == reducer(s1, MarkEvent(i), Positions)
                          s3 == reducer(s2, MarkEvent(i), Positions)
                      IN  /\ statusOf(s1, i) = "flagged"
                          /\ statusOf(s2, i) = "question"
                          /\ statusOf(s3, i) = "hidden"
                          /\ s1.gameState = "active"
                          /\ s3.cells = state.cells
                          /\ \A s \in {s1, s2, s3} :
                                 /\ s.mines = state.mines
                                 /\ s.initialized = state.initialized
                                 /\ \A k \in Positions \ {i} :
                                        s.cells[k] = state.cells[k]
                          /\ ~callsInitMines(state, MarkEvent(i))
                          /\ ~callsInitMines(s1, MarkEvent(i))
                          /\ ~callsInitMines(s2, MarkEvent(i))

\* a cell toggled twice, before any mine is placed, next to a hidden cell
C16_Witness ==
    /\ state.gameState = "active" /\ ~state.initialized
    /\ \E k \in Positions : statusOf(state, k) = "question"
    /\ \E k \in Positions : statusOf(state, k) = "hidden"


\* C14: in every phase a Reveal, RevealAdjacent or ToggleFlag whose index is
\* outside [0, cellCount) is answered with an error (the reducer throws, so
\* the snapshot stays the prior one) and is never silently ignored.
C14_InvalidIndexSignalled ==
    \A e \in PlayerEvents :
        invalidCell(state.cells, e.index) => throws(state, e)


\* the grid neighbours of position k on board b
neighbours(k, b) ==
    LET m == adjacentIndexMatrix(k, b)
    IN  {m[d] : d \in DOMAIN m} \ {Null}

\* C17: in every snapshot with mines placed, lost ones included, the cell at
\* position k has index k and an adjacentMineCount equal to the number of
\* grid neighbours of k that are in the mine set.
C17_CellIntegrity ==
    state.initialized
        => \A k \in Positions :
               /\ state.cells[k].index = k
               /\ state.cells[k].adjacentMineCount
                      = Cardinality(neighbours(k, board) \cap state.mines)

\* C18: while the mines of a first Reveal(i) are placed and one is still to
\* be placed, every index of the grid other than i that is not yet a mine
\* can be drawn as the next mine, the last cell included.
C18_SamplesWholeGrid ==
    (pc = "initMines" /\ loc.minesToAssign > 0)
        => \A c \in Positions :
               (c # loc.event.index /\ c \notin loc.mines)
                   => /\ c \in randomCellIndexes(loc.maxMines)
                      /\ acceptsIndex(loc.mines, loc.event.index, c)

\* C19 as stated: the reducer leaves the status of a revealed or exploded
\* cell unchanged when it is sent ToggleFlag for that cell.
C19_ReducerKeepsRevealed ==
    \A i \in Positions :
        statusOf(state, i) \in {"revealed", "exploded"}
            => statusOf(reducer(state, MarkEvent(i), {}), i) = statusOf(state, i)

\* C19, amended: in the running program, where GridCell sends ToggleFlag for
\* hidden, flagged and question cells only, a cell that is revealed stays
\* revealed in every later snapshot of the round.
C19_RevealedStaysRevealed ==
    [][\A k \in Positions :
           (statusOf(state, k) = "revealed" /\ state'.initialized)
               => (k \in DOMAIN state'.cells /\ statusOf(state', k) = "revealed")]_vars

\* a running round with a revealed cell and a flag set by ToggleFlag
C19_Witness ==
    /\ state.gameState = "active" /\ state.initialized
    /\ \E k \in Positions : statusOf(state, k) = "revealed"
    /\ \E k \in Positions : statusOf(state, k) = "flagged"

\* C20: the reducer returns the snapshot unchanged for MarkRemainingMines in
\* phase idle or active and for RevealAdjacent in phase idle.
C20_NoFallThrough ==
    /\ state.gameState \in {"idle", "active"}
           => reducer(state, MarkRemainingEvent, {}) = state
    /\ state.gameState = "idle"
           => \A i \in Positions : reducer(state, ChordEvent(i), {}) = state


\* the neighbours of position i with the given status
neighboursWith(st, i, status) ==
    {n \in neighbours(i, board) : statusOf(st, n) = status}

\* C12: in phase active, RevealAdjacent(i) returns the snapshot unchanged when
\* adjacentMineCount of cell i is <= 0 or fewer neighbours than that are
\* flagged; otherwise every neighbour that was hidden has been revealed (or
\* has exploded), the flags stay and the mine set is the same.
C12_ChordThreshold ==
    state.gameState = "active"
        => \A i \in Positions :
               LET cell == state.cells[i]
                   next == reducer(state, ChordEvent(i), {})
               IN  IF \/ cell.adjacentMineCount <= 0
                      \/ Cardinality(neighboursWith(state, i, "flagged"))
                             < cell.adjacentMineCount
                   THEN next = state
                   ELSE /\ \A n \in neighboursWith(state, i, "hidden") :
                               statusOf(next, n) \in {"revealed", "exploded"}
                        /\ neighboursWith(state, i, "hidden") # {}
                               => next # state
                        /\ next.mines = state.mines
                        /\ next.initialized = state.initialized

\* a revealed cell whose flagged neighbours reach its count, with a hidden
\* neighbour left to reveal
C12_Witness ==
    /\ state.gameState = "active"
    /\ \E i \in Positions :
           /\ statusOf(state, i) = "revealed"
           /\ state.cells[i].adjacentMineCount > 0
           /\ Cardinality(neighboursWith(state, i, "flagged"))
                  >= state.cells[i].adjacentMineCount
           /\ neighboursWith(state, i, "hidden") # {}


\* The 8-connected region of cells without adjacent mines that contains the
\* cells of R, from the geometry of the board and the mine set alone.
RECURSIVE zeroRegion(_, _, _)
zeroRegion(R, b, mines) ==
    LET around == UNION {neighbours(r, b) : r \in R}
        more == R \cup {n \in around : neighbours(n, b) \cap mines = {}}
    IN  IF more = R THEN R ELSE zeroRegion(more, b, mines)

\* the region of i together with the cells adjacent to it
cascadeArea(i, b, mines) ==
    LET R == zeroRegion({i}, b, mines)
    IN  R \cup UNION {neighbours(r, b) : r \in R}

\* the cells that are revealed in next and were not in st
becameRevealed(st, next) ==
    {k \in DOMAIN st.cells :
        statusOf(next, k) = "revealed" /\ statusOf(st, k) # "revealed"}

\* what C11 says of the snapshot next that Reveal(i) gives from st with the
\* mine set mines
cascadeCorrect(st, i, mines, next) ==
    /\ becameRevealed(st, next)
           = {k \in cascadeArea(i, board, mines) : statusOf(st, k) # "revealed"}
    /\ becameRevealed(st, next) \cap mines = {}
    /\ next.gameState # "lost"
    /\ next.mines = mines

\* C11: Reveal(i) on a cell that is no mine, has adjacentMineCount 0 and is
\* not yet revealed reveals exactly the not yet revealed cells of the
\* 8-connected zero-adjacency region of i and of the cells adjacent to it,
\* reveals no mine and does not lose; both for a reveal in a round whose
\* mines are placed and for the first reveal, whatever mines initMines returns.
C11_CascadeExact ==
    /\ (Ready /\ state.gameState = "active" /\ state.initialized)
           => \A i \in Positions :
                  ( /\ i \notin state.mines
                    /\ state.cells[i].adjacentMineCount = 0
                    /\ statusOf(state, i) # "revealed" )
                      => cascadeCorrect(state, i, state.mines,
                                        reducer(state, RevealEvent(i), {}))
    /\ pc = "initMines"
           => \A r \in randomCellIndexes(loc.maxMines) :
                  LET l == initMinesPass(loc, r)
                      i == loc.event.index
                  IN  ( /\ l.minesToAssign = 0
                        /\ neighbours(i, board) \cap l.mines = {} )
                          => cascadeCorrect(state, i, l.mines,
                                            reducer(state, loc.event, l.mines))

\* a round with a mine and revealed cells in which a hidden cell without
\* adjacent mines is left whose cascade meets cells revealed before and
\* leaves a safe cell hidden
C11_Witness ==
    /\ Ready /\ state.gameState = "active" /\ state.initialized
    /\ state.mines # {}
    /\ \E i \in Positions :
           /\ i \notin state.mines
           /\ state.cells[i].adjacentMineCount = 0
           /\ statusOf(state, i) = "hidden"
           /\ \E k \in cascadeArea(i, board, state.mines) :
                  statusOf(state, k) = "revealed"
           /\ \E k \in cascadeArea(i, board, state.mines) \ {i} :
                  statusOf(state, k) = "hidden"
           /\ \E k \in Positions \ (cascadeArea(i, board, state.mines) \cup state.mines) :
                  statusOf(state, k) = "hidden"

====
